---- MODULE Spec2Model ----
(***************************************************************************)
(* Generic background-job queue of bookbytes: the Job record               *)
(* (models/job.py) and the worker-safe operations of JobRepository         *)
(* (repositories/job.py).  claim_next and schedule_retry are each a read   *)
(* followed by a write, so each is two steps that other calls may          *)
(* interleave with; every other operation is one UPDATE statement.         *)
(* AudioBookJobRepository.create_link (repositories/audio_book_job.py)     *)
(* inserts the row that ties a job to an audio book.                       *)
(***************************************************************************)
EXTENDS Integers, Sequences, FiniteSets, TLC

VARIABLES
    jobs,       \* the jobs table: job id -> row
    pc,         \* per calling process: the call it is in the middle of
    now,        \* the clock read by datetime.now(UTC) and func.now()
    ret,        \* what the step just taken returned to its caller, if it returned
    claimLog,   \* history: per job, the version returned by each successful claim
    holder,     \* history: per job, the workers whose claim on it is active
    retried,    \* history: per job, the number of schedule_retry calls that returned True
    links       \* the audio_book_jobs table: its rows in insertion order

vars == <<jobs, pc, now, ret, claimLog, holder, retried, links>>

----------------------------------------------------------------------------
(* Bounds of the model *)

MaxTime == 1            \* the clock runs 0..MaxTime
MaxVersion == 3         \* Spec: no claim is started once a job is at this version
MaxRetriesBound == 2    \* Spec: max_retries of a created job is 0..MaxRetriesBound
MaxSerialVersion == 5   \* SpecSerial: the same two bounds for calls that do not overlap
MaxSerialRetries == 3
MaxBacklogRetries == 1  \* SpecBacklog: max_retries of the two jobs
MaxLimit == 2           \* the list queries are asked for 0..MaxLimit rows

JobIds == {"j1", "j2"}
\* ids are handed out in this order
JobOrder == <<"j1", "j2">>
\* the calling processes (workers, supervisor)
Procs == {"w1", "w2", "w3"}

----------------------------------------------------------------------------
(* Values *)

\* a nullable column is a sequence of length at most one
Null == <<>>
Some(x) == <<x>>

\* JobStatus
PENDING == "pending"
PROCESSING == "processing"
COMPLETED == "completed"
FAILED == "failed"
JobStatuses == {PENDING, PROCESSING, COMPLETED, FAILED}

\* JobType
AUDIOBOOK_GENERATION == "audiobook_generation"
AUDIOBOOK_REFRESH == "audiobook_refresh"
JobTypes == {AUDIOBOOK_GENERATION, AUDIOBOOK_REFRESH}

\* column widths used by mark_failed
MaxErrorMessageLen == 2000
MaxErrorCodeLen == 50

\* column defaults of Job
DefaultVersion == 1
DefaultRetryCount == 0
DefaultProgress == 0

\* returned values: a job id, or one of these
None == "None"
True == "True"
False == "False"
Bool(b) == IF b THEN True ELSE False

\* ret: the operation that returned, the job id it was called with, its value
\* and, of its other arguments, those the properties refer to
NoArgs == [none |-> Null]
Returned(op, j, val) ==
    [op |-> op, job |-> j, val |-> val, job_type |-> Null, args |-> NoArgs]
\* claim_next is called with a job_type filter instead of a job id
ClaimResult(filter, val) == [Returned("claim_next", "-", val) EXCEPT !.job_type = filter]
NoRet == Returned("-", "-", "-")

Min(a, b) == IF a < b THEN a ELSE b
Max(a, b) == IF a > b THEN a ELSE b

\* variant: nothing is cut off
PrefixWhole(s, n) == s

\* s[:n]
Prefix(s, n) == SubSeq(s, 1, Min(Len(s), n))

----------------------------------------------------------------------------
(* Job *)

NewJob(jobType, maxRetries, createdAt) ==
    [ job_type      |-> jobType,
      status        |-> PENDING,
      progress      |-> DefaultProgress,
      current_step  |-> Null,
      error_message |-> Null,
      error_code    |-> Null,
      version       |-> DefaultVersion,
      worker_id     |-> Null,
      retry_count   |-> DefaultRetryCount,
      max_retries   |-> maxRetries,
      started_at    |-> Null,
      completed_at  |-> Null,
      created_at    |-> createdAt,
      updated_at    |-> createdAt ]

is_terminal(job) == job.status \in {COMPLETED, FAILED}

\* variant: the budget test admits retry_count = max_retries
can_retryInclusive(job) ==
    /\ job.status = FAILED
    /\ job.retry_count <= job.max_retries

can_retry(job) ==
    /\ job.status = FAILED
    /\ job.retry_count < job.max_retries

Exists(j) == j \in DOMAIN jobs

\* TimestampMixin.updated_at, onupdate=func.now(): set by every UPDATE of the row
OnUpdate(job) == [job EXCEPT !.updated_at = now]

Idle == [st |-> "idle"]

----------------------------------------------------------------------------
Init ==
    /\ jobs = [j \in {} |-> NewJob(AUDIOBOOK_GENERATION, 0, 0)]
    /\ pc = [p \in Procs |-> Idle]
    /\ now = 0
    /\ ret = NoRet
    /\ claimLog = [j \in JobIds |-> <<>>]
    /\ holder = [j \in JobIds |-> {}]
    /\ retried = [j \in JobIds |-> 0]
    /\ links = <<>>

\* the clock advances
Tick ==
    /\ now < MaxTime
    /\ now' = now + 1
    /\ ret' = NoRet
    /\ UNCHANGED <<jobs, pc, claimLog, holder, retried, links>>

\* a domain service inserts a job: BaseRepository.create with the column defaults
Create(j, jobType, maxRetries) ==
    /\ ~Exists(j)
    /\ j = JobOrder[Cardinality(DOMAIN jobs) + 1]
    /\ jobs' = [i \in DOMAIN jobs \cup {j} |->
                  IF i = j THEN NewJob(jobType, maxRetries, now) ELSE jobs[i]]
    /\ ret' = Returned("create", j, j)
    /\ UNCHANGED <<pc, now, claimLog, holder, retried, links>>

----------------------------------------------------------------------------
(* JobRepository.claim_next *)

\* WHERE status = 'pending' [AND job_type = :job_type]; "if job_type:" skips an absent filter
PendingJobs(filter) ==
    {j \in DOMAIN jobs :
        /\ jobs[j].status = PENDING
        /\ (filter = Null \/ jobs[j].job_type = filter[1])}

\* variant: LIMIT 1 without the ORDER BY, any row
OldestUnordered(S) == S

\* ORDER BY created_at LIMIT 1: any row with the least created_at
Oldest(S) == {j \in S : \A k \in S : jobs[j].created_at <= jobs[k].created_at}

\* variant: the update expects the version the claim is about to write
ClaimMatchesNextVersion(j, version) == Exists(j) /\ jobs[j].version = version + 1

\* variant: the update is conditioned on the id alone
ClaimMatchesNoLock(j, version) == Exists(j)

\* WHERE id = job.id AND version = job.version
ClaimMatches(j, version) == Exists(j) /\ jobs[j].version = version

\* variant: the claim leaves the version as it was
ClaimValuesNoBump(job, worker, version) ==
    [job EXCEPT !.status = PROCESSING,
                !.worker_id = Some(worker),
                !.started_at = Some(now)]

\* variant: the claim also resets retry_count and progress
ClaimValuesFreshStart(job, worker, version) ==
    [job EXCEPT !.status = PROCESSING,
                !.worker_id = Some(worker),
                !.started_at = Some(now),
                !.version = version + 1,
                !.retry_count = DefaultRetryCount,
                !.progress = DefaultProgress]

\* .values(status, worker_id, started_at, version)
ClaimValues(job, worker, version) ==
    [job EXCEPT !.status = PROCESSING,
                !.worker_id = Some(worker),
                !.started_at = Some(now),
                !.version = version + 1]

\* the select: no row returns None, else the row is kept for the update
ClaimSelect(p, filter) ==
    /\ pc[p].st = "idle"
    /\ IF PendingJobs(filter) = {}
       THEN /\ ret' = ClaimResult(filter, None)
            /\ UNCHANGED pc
       ELSE \E j \in Oldest(PendingJobs(filter)) :
              /\ pc' = [pc EXCEPT ![p] =
                          [st |-> "claim", filter |-> filter, job |-> j,
                           version |-> jobs[j].version]]
              /\ ret' = NoRet
    /\ UNCHANGED <<jobs, now, claimLog, holder, retried, links>>

\* the conditional update ... returning(Job)
ClaimUpdate(p) ==
    /\ pc[p].st = "claim"
    /\ LET j == pc[p].job
           v == pc[p].version
       IN  IF ClaimMatches(j, v)
           THEN /\ jobs' = [jobs EXCEPT ![j] = OnUpdate(ClaimValues(jobs[j], p, v))]
                /\ ret' = ClaimResult(pc[p].filter, j)
                /\ claimLog' = [claimLog EXCEPT ![j] = Append(@, jobs'[j].version)]
                /\ holder' = [holder EXCEPT ![j] = @ \cup {p}]
           ELSE /\ ret' = ClaimResult(pc[p].filter, None)
                /\ UNCHANGED <<jobs, claimLog, holder>>
    /\ pc' = [pc EXCEPT ![p] = Idle]
    /\ UNCHANGED <<now, retried, links>>

----------------------------------------------------------------------------
(* JobRepository.update_progress, mark_completed, mark_failed *)

\* variant: only the upper end is clamped
ClampUpper(progress) == Min(100, progress)

\* min(100, max(0, progress))
Clamp(progress) == Min(100, Max(0, progress))

\* variant: a report without a step clears current_step
ProgressValuesClearStep(job, progress, step) ==
    [job EXCEPT !.progress = Clamp(progress), !.current_step = step]

ProgressValues(job, progress, step) ==
    IF step # Null
    THEN [job EXCEPT !.progress = Clamp(progress), !.current_step = step]
    ELSE [job EXCEPT !.progress = Clamp(progress)]

\* variant: a completed job is left with no retries
CompletedValuesNoRetriesLeft(job) ==
    [job EXCEPT !.status = COMPLETED,
                !.progress = 100,
                !.max_retries = job.retry_count,
                !.completed_at = Some(now)]

\* variant: completion leaves progress where the worker last reported it
CompletedValuesKeepProgress(job) ==
    [job EXCEPT !.status = COMPLETED,
                !.completed_at = Some(now)]

CompletedValues(job) ==
    [job EXCEPT !.status = COMPLETED,
                !.progress = 100,
                !.completed_at = Some(now)]

\* variant: a failure uses up a retry
FailedValuesCountsAttempt(job, msg, code) ==
    [job EXCEPT !.status = FAILED,
                !.error_message = Some(Prefix(msg, MaxErrorMessageLen)),
                !.error_code = IF code # Null /\ code[1] # <<>>
                               THEN Some(Prefix(code[1], MaxErrorCodeLen))
                               ELSE Null,
                !.retry_count = @ + 1,
                !.completed_at = Some(now)]

\* error_code[:50] if error_code else None
FailedValues(job, msg, code) ==
    [job EXCEPT !.status = FAILED,
                !.error_message = Some(Prefix(msg, MaxErrorMessageLen)),
                !.error_code = IF code # Null /\ code[1] # <<>>
                               THEN Some(Prefix(code[1], MaxErrorCodeLen))
                               ELSE Null,
                !.completed_at = Some(now)]

\* variant: the UPDATE is taken to have matched a row
RowCountAssumed(j) == 1

\* UPDATE jobs SET ... WHERE id = :job_id; returns rowcount > 0
RowCount(j) == IF Exists(j) THEN 1 ELSE 0

\* history: a write to the row of job j took effect, which ends the claims on it
Released(j) == IF Exists(j) THEN [holder EXCEPT ![j] = {}] ELSE holder

update_progress(j, progress, step) ==
    /\ jobs' = IF Exists(j)
               THEN [jobs EXCEPT ![j] = OnUpdate(ProgressValues(jobs[j], progress, step))]
               ELSE jobs
    /\ ret' = [Returned("update_progress", j, Bool(RowCount(j) > 0))
                 EXCEPT !.args = [progress |-> progress, step |-> step]]
    /\ UNCHANGED <<pc, now, claimLog, holder, retried, links>>

mark_completed(j) ==
    /\ jobs' = IF Exists(j)
               THEN [jobs EXCEPT ![j] = OnUpdate(CompletedValues(jobs[j]))]
               ELSE jobs
    /\ ret' = Returned("mark_completed", j, Bool(RowCount(j) > 0))
    /\ holder' = Released(j)
    /\ UNCHANGED <<pc, now, claimLog, retried, links>>

mark_failed(j, msg, code) ==
    /\ jobs' = IF Exists(j)
               THEN [jobs EXCEPT ![j] = OnUpdate(FailedValues(jobs[j], msg, code))]
               ELSE jobs
    /\ ret' = [Returned("mark_failed", j, Bool(RowCount(j) > 0))
                 EXCEPT !.args = [error_message |-> msg, error_code |-> code]]
    /\ holder' = Released(j)
    /\ UNCHANGED <<pc, now, claimLog, retried, links>>

----------------------------------------------------------------------------
(* JobRepository.schedule_retry *)

\* BaseRepository.get_by_id: the row, or Null
get_by_id(j) == IF Exists(j) THEN Some(jobs[j]) ELSE Null

\* variant: a retried job restarts at the default version
RetryValuesResetVersion(job, readRetryCount) ==
    [job EXCEPT !.status = PENDING,
                !.retry_count = readRetryCount + 1,
                !.version = DefaultVersion,
                !.worker_id = Null,
                !.started_at = Null,
                !.completed_at = Null,
                !.error_message = Null,
                !.error_code = Null]

\* variant: the retry leaves worker_id as it was
RetryValuesKeepWorker(job, readRetryCount) ==
    [job EXCEPT !.status = PENDING,
                !.retry_count = readRetryCount + 1,
                !.started_at = Null,
                !.completed_at = Null,
                !.error_message = Null,
                !.error_code = Null]

\* variant: the retried job goes to the back of the queue
RetryValuesRequeued(job, readRetryCount) ==
    [job EXCEPT !.status = PENDING,
                !.retry_count = readRetryCount + 1,
                !.worker_id = Null,
                !.started_at = Null,
                !.completed_at = Null,
                !.error_message = Null,
                !.error_code = Null,
                !.created_at = now]

\* variant: the retry leaves error_message as it was
RetryValuesKeepError(job, readRetryCount) ==
    [job EXCEPT !.status = PENDING,
                !.retry_count = readRetryCount + 1,
                !.worker_id = Null,
                !.started_at = Null,
                !.completed_at = Null,
                !.error_code = Null]

\* .values(...) of the update; retry_count comes from the row read earlier
RetryValues(job, readRetryCount) ==
    [job EXCEPT !.status = PENDING,
                !.retry_count = readRetryCount + 1,
                !.worker_id = Null,
                !.started_at = Null,
                !.completed_at = Null,
                !.error_message = Null,
                !.error_code = Null]

\* job = get_by_id(job_id); if not job or not job.can_retry: return False
ScheduleRetryRead(p, j) ==
    /\ pc[p].st = "idle"
    /\ LET job == get_by_id(j)
       IN  IF job = Null \/ ~can_retry(job[1])
           THEN /\ ret' = Returned("schedule_retry", j, False)
                /\ UNCHANGED pc
           ELSE /\ pc' = [pc EXCEPT ![p] =
                            [st |-> "retry", job |-> j,
                             retry_count |-> job[1].retry_count]]
                /\ ret' = NoRet
    /\ UNCHANGED <<jobs, now, claimLog, holder, retried, links>>

\* the update WHERE id = :job_id; return True
ScheduleRetryWrite(p) ==
    /\ pc[p].st = "retry"
    /\ LET j == pc[p].job
       IN  /\ jobs' = IF Exists(j)
                      THEN [jobs EXCEPT ![j] =
                                    OnUpdate(RetryValues(jobs[j], pc[p].retry_count))]
                      ELSE jobs
           /\ holder' = Released(j)
           /\ ret' = Returned("schedule_retry", j, True)
           /\ retried' = [retried EXCEPT ![j] = @ + 1]
    /\ pc' = [pc EXCEPT ![p] = Idle]
    /\ UNCHANGED <<now, claimLog, links>>

----------------------------------------------------------------------------
(* AudioBookJobRepository.create_link *)

\* the audio books that exist
AudioBooks == {"a1", "a2"}
IntegrityError == "IntegrityError"

\* ret of a call that names an audio book
LinkCall(op, j, audioBook, val) ==
    [Returned(op, j, val) EXCEPT !.args = [audio_book_id |-> audioBook]]

NewLink(j, audioBook) == [job_id |-> j, audio_book_id |-> audioBook, created_at |-> now]

\* variant: job_id carries no unique constraint
HasLinkUnchecked(j) == FALSE

\* audio_book_jobs.job_id is UNIQUE
HasLink(j) == \E i \in 1..Len(links) : links[i].job_id = j

\* INSERT of the link row; the commit raises when job_id names no job (foreign
\* key) or already has a link (unique constraint)
create_link(j, audioBook) ==
    /\ IF Exists(j) /\ ~HasLink(j)
       THEN /\ links' = Append(links, NewLink(j, audioBook))
            /\ ret' = LinkCall("create_link", j, audioBook, j)
       ELSE /\ links' = links
            /\ ret' = LinkCall("create_link", j, audioBook, IntegrityError)
    /\ UNCHANGED <<jobs, pc, now, claimLog, holder, retried>>

----------------------------------------------------------------------------
(* AudioBookJobRepository: the queries *)

MultipleResultsFound == "MultipleResultsFound"

\* WHERE audio_book_jobs.job_id = :job_id
LinksOfJob(j) == {i \in 1..Len(links) : links[i].job_id = j}

\* scalar_one_or_none(): the audio book of the one link, None, or an error
get_by_job_id(j) ==
    /\ ret' = Returned("get_by_job_id", j,
                  IF LinksOfJob(j) = {} THEN None
                  ELSE IF Cardinality(LinksOfJob(j)) > 1 THEN MultipleResultsFound
                  ELSE links[CHOOSE i \in LinksOfJob(j) : TRUE].audio_book_id)
    /\ UNCHANGED <<jobs, pc, now, claimLog, holder, retried, links>>

\* jobs JOIN audio_book_jobs ON job_id = jobs.id WHERE audio_book_id = :audio_book_id
JobsOfAudioBook(audioBook) ==
    {j \in DOMAIN jobs :
        \E i \in 1..Len(links) :
            links[i].job_id = j /\ links[i].audio_book_id = audioBook}

\* variant: ORDER BY created_at, oldest first
OldestFirstOrder(S) ==
    {o \in [1..Cardinality(S) -> S] :
        /\ \A i, k \in 1..Cardinality(S) : i # k => o[i] # o[k]
        /\ \A i, k \in 1..Cardinality(S) :
              i < k => jobs[o[i]].created_at <= jobs[o[k]].created_at}

\* ORDER BY created_at DESC: every order the rows can come in, rows with equal
\* created_at in either order
NewestFirst(S) ==
    {o \in [1..Cardinality(S) -> S] :
        /\ \A i, k \in 1..Cardinality(S) : i # k => o[i] # o[k]
        /\ \A i, k \in 1..Cardinality(S) :
              i < k => jobs[o[i]].created_at >= jobs[o[k]].created_at}

\* LIMIT :limit
get_jobs_for_audiobook(audioBook, limit) ==
    /\ \E o \in NewestFirst(JobsOfAudioBook(audioBook)) :
          ret' = [Returned("get_jobs_for_audiobook", "-", Prefix(o, limit))
                    EXCEPT !.args = [audio_book_id |-> audioBook, limit |-> limit]]
    /\ UNCHANGED <<jobs, pc, now, claimLog, holder, retried, links>>

\* LIMIT 1, scalar_one_or_none()
get_latest_job_for_audiobook(audioBook) ==
    /\ \E o \in NewestFirst(JobsOfAudioBook(audioBook)) :
          ret' = [Returned("get_latest_job_for_audiobook", "-",
                           IF Len(o) = 0 THEN None ELSE o[1])
                    EXCEPT !.args = [audio_book_id |-> audioBook]]
    /\ UNCHANGED <<jobs, pc, now, claimLog, holder, retried, links>>

----------------------------------------------------------------------------
(* Monitoring queries of the job repository *)

\* variant: the status filter is left out
JobsWithStatusUnfiltered(status) == DOMAIN jobs

\* WHERE status = :status
JobsWithStatus(status) == {j \in DOMAIN jobs : jobs[j].status = status}

\* ORDER BY created_at: every order the rows can come in, rows with equal
\* created_at in either order
ByCreatedAt(S) ==
    {o \in [1..Cardinality(S) -> S] :
        /\ \A i, k \in 1..Cardinality(S) : i # k => o[i] # o[k]
        /\ \A i, k \in 1..Cardinality(S) :
              i < k => jobs[o[i]].created_at <= jobs[o[k]].created_at}

\* select(Job).where(status).order_by(created_at).limit(limit)
get_by_status(status, limit) ==
    /\ \E o \in ByCreatedAt(JobsWithStatus(status)) :
          ret' = [Returned("get_by_status", "-", Prefix(o, limit))
                    EXCEPT !.args = [status |-> status, limit |-> limit]]
    /\ UNCHANGED <<jobs, pc, now, claimLog, holder, retried, links>>

\* select(func.count()).where(status = 'pending'); result.scalar() or 0
get_pending_count ==
    /\ ret' = Returned("get_pending_count", "-", Cardinality(JobsWithStatus(PENDING)))
    /\ UNCHANGED <<jobs, pc, now, claimLog, holder, retried, links>>

----------------------------------------------------------------------------
(* Inputs *)

Filters == {Null} \cup {Some(t) : t \in JobTypes}
Timeout == <<"t", "i", "m", "e", "o", "u", "t">>

\* no job has been claimed as often as the bound allows
VersionsBelow(maxVersion) == \A j \in DOMAIN jobs : jobs[j].version < maxVersion

\* no call is in progress
Quiet == \A p \in Procs : pc[p].st = "idle"

\* in.overlap: a call may start while another is between its read and its write
MayStart(in) == IF in.overlap THEN TRUE ELSE Quiet

\* in.protocol: progress, completion and failure are reported only for a job
\* that a worker holds
MayReport(in, j) == IF in.protocol THEN holder[j] # {} ELSE TRUE

\* the calls of the processes P with the arguments in
Calls(P, in) ==
    \/ Tick
    \/ \E j \in in.create, t \in in.types, m \in 0..in.maxRetries :
          MayStart(in) /\ Create(j, t, m)
    \/ \E p \in P, f \in in.filters :
          MayStart(in) /\ VersionsBelow(in.maxVersion) /\ ClaimSelect(p, f)
    \/ \E p \in P : ClaimUpdate(p)
    \/ \E j \in JobIds, pr \in in.progress, s \in in.steps :
          MayStart(in) /\ MayReport(in, j) /\ update_progress(j, pr, s)
    \/ \E j \in JobIds :
          MayStart(in) /\ MayReport(in, j) /\ mark_completed(j)
    \/ \E j \in JobIds, m \in in.messages, c \in in.codes :
          MayStart(in) /\ MayReport(in, j) /\ mark_failed(j, m, c)
    \/ \E p \in P, j \in JobIds : MayStart(in) /\ ScheduleRetryRead(p, j)
    \/ \E p \in P : ScheduleRetryWrite(p)

Workers == {"w1", "w2"}

\* one job, two processes, every interleaving of the operations
QueueInputs ==
    [ create     |-> {"j1"},
      types      |-> {AUDIOBOOK_GENERATION},
      filters    |-> {Null},
      maxRetries |-> MaxRetriesBound,
      maxVersion |-> MaxVersion,
      progress   |-> {40},
      steps      |-> {Null},
      messages   |-> {Timeout},
      codes      |-> {Null},
      overlap    |-> TRUE,
      protocol   |-> FALSE ]

Next == Calls(Workers, QueueInputs)

Spec == Init /\ [][Next]_vars

\* the same, with callers that keep to the protocol
NextProtocol == Calls(Workers, [QueueInputs EXCEPT !.protocol = TRUE])

SpecProtocol == Init /\ [][NextProtocol]_vars

\* one process whose calls do not overlap, with more varied arguments
SerialInputs ==
    [ create     |-> {"j1"},
      types      |-> {AUDIOBOOK_GENERATION},
      filters    |-> {Null},
      maxRetries |-> MaxSerialRetries,
      maxVersion |-> MaxSerialVersion,
      progress   |-> {40},
      steps      |-> {Null, Some("extract")},
      messages   |-> {Timeout},
      codes      |-> {Null, Some(<<"E", "1">>)},
      overlap    |-> FALSE,
      protocol   |-> FALSE ]

NextSerial == Calls({"w1"}, SerialInputs)

SpecSerial == Init /\ [][NextSerial]_vars

----------------------------------------------------------------------------
(* N workers race for the one PENDING job of the store *)

\* a PENDING job that has been claimed, failed and retried k times
RetriedJob(jobType, maxRetries, k) ==
    [NewJob(jobType, maxRetries, 0) EXCEPT !.version = DefaultVersion + k,
                                           !.retry_count = k]

\* the rest of the store: nothing, or a job some worker has claimed and perhaps finished
ClaimedJob == ClaimValues(NewJob(AUDIOBOOK_REFRESH, 0, 0), "w0", DefaultVersion)
OtherJobs ==
    { [j \in {} |-> ClaimedJob],
      [j \in {"j2"} |-> ClaimedJob],
      [j \in {"j2"} |-> CompletedValues(ClaimedJob)],
      [j \in {"j2"} |-> FailedValues(ClaimedJob, Timeout, Null)] }

InitRace ==
    /\ now = 0
    /\ \E t \in JobTypes, m \in 0..MaxRetriesBound, k \in 0..MaxRetriesBound, o \in OtherJobs :
          /\ k <= m
          /\ jobs = [j \in {"j1"} \cup DOMAIN o |->
                        IF j = "j1" THEN RetriedJob(t, m, k) ELSE o[j]]
          /\ claimLog = [j \in JobIds |-> <<>>]
          /\ holder = [j \in JobIds |->
                         IF j \in DOMAIN o /\ o[j].status = PROCESSING THEN {"w0"} ELSE {}]
          /\ retried = [j \in JobIds |-> IF j = "j1" THEN k ELSE 0]
    /\ pc = [p \in Procs |-> Idle]
    /\ ret = NoRet
    /\ links = <<>>

\* only claim_next runs, unfiltered or filtered by the type of the pending job
NextRace ==
    \/ Tick
    \/ \E p \in Procs, f \in {Null, Some(jobs["j1"].job_type)} : ClaimSelect(p, f)
    \/ \E p \in Procs : ClaimUpdate(p)

SpecRace == InitRace /\ [][NextRace]_vars

----------------------------------------------------------------------------
(* Two jobs of either type, claimed by two workers *)

\* jobs are created and claimed; nothing is reported for them
NextPair ==
    \/ Tick
    \/ \E j \in JobIds, t \in JobTypes : Create(j, t, MaxRetriesBound)
    \/ \E p \in Workers, f \in Filters : ClaimSelect(p, f)
    \/ \E p \in Workers : ClaimUpdate(p)

SpecPair == Init /\ [][NextPair]_vars

----------------------------------------------------------------------------
(* Two jobs; one worker keeps polling without a type filter, the other races *)

Poller == "w1"

\* one step of the polling worker's claim_next(worker_id, None)
Poll == ClaimSelect(Poller, Null) \/ ClaimUpdate(Poller)

NextPoll ==
    \/ Tick
    \/ \E j \in JobIds, t \in JobTypes : Create(j, t, MaxRetriesBound)
    \/ Poll
    \/ \E p \in Workers \ {Poller}, f \in Filters : ClaimSelect(p, f)
    \/ \E p \in Workers \ {Poller} : ClaimUpdate(p)

\* the polling worker's select and its update are each taken when they stay
\* enabled; nothing is assumed of the other worker
SpecPoll ==
    /\ Init
    /\ [][NextPoll]_vars
    /\ WF_vars(ClaimSelect(Poller, Null))
    /\ WF_vars(ClaimUpdate(Poller))

----------------------------------------------------------------------------
(* Two jobs and one worker that keeps to the protocol; calls do not overlap, and
   the queue is read by the monitoring queries between them *)

NextBacklog ==
    \/ Tick
    \/ \E j \in JobIds : Quiet /\ Create(j, AUDIOBOOK_GENERATION, MaxBacklogRetries)
    \/ Quiet /\ ClaimSelect("w1", Null)
    \/ ClaimUpdate("w1")
    \/ \E j \in JobIds : Quiet /\ holder[j] # {} /\ mark_completed(j)
    \/ \E j \in JobIds : Quiet /\ holder[j] # {} /\ mark_failed(j, Timeout, Null)
    \/ \E j \in JobIds : Quiet /\ ScheduleRetryRead("w1", j)
    \/ ScheduleRetryWrite("w1")
    \/ \E st \in JobStatuses, n \in 0..MaxLimit : Quiet /\ get_by_status(st, n)
    \/ Quiet /\ get_pending_count

SpecBacklog == Init /\ [][NextBacklog]_vars

----------------------------------------------------------------------------
(* One job and its link to an audio book; calls do not overlap *)

LinkInputs == [QueueInputs EXCEPT !.overlap = FALSE]

NextLinks ==
    \/ Calls({"w1"}, LinkInputs)
    \/ \E j \in JobIds, a \in AudioBooks : MayStart(LinkInputs) /\ create_link(j, a)

SpecLinks == Init /\ [][NextLinks]_vars

----------------------------------------------------------------------------
(* Two workers take turns: their calls do not overlap *)

NextTurns == Calls(Workers, [QueueInputs EXCEPT !.overlap = FALSE])

SpecTurns == Init /\ [][NextTurns]_vars

----------------------------------------------------------------------------
(* Progress reports of any size, in and out of range *)

ProgressInputs ==
    [QueueInputs EXCEPT !.overlap = FALSE,
                        !.progress = {-5, 0, 40, 100, 120},
                        !.steps = {Null, Some("extract")}]

NextProgress == Calls({"w1"}, ProgressInputs)

SpecProgress == Init /\ [][NextProgress]_vars

----------------------------------------------------------------------------
(* Two jobs and their links to the audio books *)


NextEntity ==
    \/ Tick
    \/ \E j \in JobIds : Create(j, AUDIOBOOK_GENERATION, MaxRetriesBound)
    \/ \E j \in JobIds, a \in AudioBooks : create_link(j, a)
    \/ \E j \in JobIds : get_by_job_id(j)
    \/ \E a \in AudioBooks, n \in 0..MaxLimit : get_jobs_for_audiobook(a, n)
    \/ \E a \in AudioBooks : get_latest_job_for_audiobook(a)

SpecEntity == Init /\ [][NextEntity]_vars

----------------------------------------------------------------------------
(* Failures reported with messages and codes up to and over the column bounds *)

\* a text of n characters
Text(n) == [i \in 1..n |-> "x"]

ErrorMessages == {Timeout, Text(MaxErrorMessageLen), Text(MaxErrorMessageLen + 1)}
ErrorCodes ==
    {Null, Some(<<>>), Some(<<"E", "1">>),
     Some(Text(MaxErrorCodeLen)), Some(Text(MaxErrorCodeLen + 1))}

NextErrors ==
    \/ Tick
    \/ \E m \in 0..MaxRetriesBound : Create("j1", AUDIOBOOK_GENERATION, m)
    \/ \E j \in JobIds, m \in ErrorMessages, c \in ErrorCodes :
          Quiet /\ mark_failed(j, m, c)
    \/ \E j \in JobIds : Quiet /\ ScheduleRetryRead("w1", j)
    \/ ScheduleRetryWrite("w1")

SpecErrors == Init /\ [][NextErrors]_vars

TypeOK ==
    /\ now \in 0..MaxTime
    /\ DOMAIN jobs \subseteq JobIds
    /\ \A j \in DOMAIN jobs : jobs[j].version \in 1..MaxSerialVersion

----------------------------------------------------------------------------
(* Properties *)

ClaimReturned == ret'.op = "claim_next"
RetryReturned(val) == ret'.op = "schedule_retry" /\ ret'.val = val
Exhausted(job) == job.status = FAILED /\ job.retry_count = job.max_retries

\* C1 (SpecRace): no double-claim. While the one PENDING job j1 has not been
\* handed out, a claim_next that returns returns j1; once it has been handed
\* out every claim_next returns None, so exactly one call gets the job.
NoDoubleClaim ==
    [][ClaimReturned =>
          IF claimLog["j1"] = <<>>
          THEN ret'.val = "j1" /\ Len(claimLog'["j1"]) = 1
          ELSE ret'.val = None /\ claimLog' = claimLog /\ jobs' = jobs]_vars

\* two workers selected j1 before a third one claimed it, and have yet to update
RaceLost ==
    \E p \in Procs : \E q \in Procs \ {p} :
        /\ Len(claimLog["j1"]) = 1
        /\ pc[p].st = "claim" /\ pc[p].version < jobs["j1"].version
        /\ pc[q].st = "claim" /\ pc[q].version < jobs["j1"].version

\* C2 (SpecProtocol): at every moment at most one worker holds an active claim on a
\* job; a claim is active from the claim_next that returned the job until the
\* next mark_completed, mark_failed or schedule_retry write on it.
AtMostOneActiveClaim == \A j \in JobIds : Cardinality(holder[j]) <= 1

\* j1 is held by its second claimant while the other process has a retry of it in flight
SecondClaimHeld ==
    \E p \in Workers : \E q \in Workers \ {p} :
        /\ holder["j1"] = {p}
        /\ Len(claimLog["j1"]) = 2
        /\ pc[q].st = "retry" /\ pc[q].job = "j1"

\* C3 (Spec): version monotonicity. A job is created at version 1, a step in
\* which claim_next returns the job raises its version by exactly one, and
\* no other step changes it.
VersionMonotonicity ==
    [][\A j \in DOMAIN jobs' :
          IF j \notin DOMAIN jobs
          THEN jobs'[j].version = 1
          ELSE IF ClaimReturned /\ ret'.val = j
               THEN jobs'[j].version = jobs[j].version + 1
               ELSE jobs'[j].version = jobs[j].version]_vars

\* j1 has just been claimed again after a retry
ReclaimedAfterRetry ==
    /\ ret = Returned("claim_next", "-", "j1")
    /\ retried["j1"] >= 1
    /\ jobs["j1"].version = 3

\* C4 (Spec): the versions returned by the successful claims of a job are
\* strictly increasing, so no two claims return the same (id, version).
ClaimedVersionsIncrease ==
    \A j \in JobIds : \A i \in 1..Len(claimLog[j]) :
        \A k \in 1..Len(claimLog[j]) : i < k => claimLog[j][i] < claimLog[j][k]

TwoClaimsOfOneJob == Len(claimLog["j1"]) = 2 /\ retried["j1"] >= 1

\* C5 as stated: status is PROCESSING exactly when worker_id and started_at
\* are non-null.
ProcessingIffWorker ==
    \A j \in DOMAIN jobs :
        jobs[j].status = PROCESSING
            <=> (jobs[j].worker_id # Null /\ jobs[j].started_at # Null)

\* C5 amended (Spec): a PROCESSING job has worker_id and started_at, and a
\* PENDING job has neither.
ProcessingHasWorker ==
    \A j \in DOMAIN jobs :
        /\ jobs[j].status = PROCESSING
              => (jobs[j].worker_id # Null /\ jobs[j].started_at # Null)
        /\ jobs[j].status = PENDING
              => (jobs[j].worker_id = Null /\ jobs[j].started_at = Null)

\* a job that was claimed is PENDING again after a retry
PendingAfterClaimAndRetry ==
    /\ Exists("j1")
    /\ jobs["j1"].status = PENDING
    /\ Len(claimLog["j1"]) >= 1
    /\ ret = Returned("schedule_retry", "j1", True)

\* C6 as stated: status is COMPLETED or FAILED exactly when completed_at is
\* non-null.
CompletedAtIffTerminal ==
    \A j \in DOMAIN jobs :
        is_terminal(jobs[j]) <=> jobs[j].completed_at # Null

\* C7 (Spec): retry_count <= max_retries for every job.
RetryCountBounded ==
    \A j \in DOMAIN jobs : jobs[j].retry_count <= jobs[j].max_retries

\* two overlapping schedule_retry calls both returned True and the budget is spent
BudgetSpentByOverlappingRetries ==
    /\ Exists("j1")
    /\ jobs["j1"].max_retries >= 1
    /\ jobs["j1"].retry_count = jobs["j1"].max_retries
    /\ retried["j1"] > jobs["j1"].max_retries

\* C8 as stated (SpecProtocol): a FAILED job with retry_count = max_retries is never moved
\* back to PENDING.
ExhaustedIsTerminal ==
    [][\A j \in DOMAIN jobs :
          Exhausted(jobs[j]) => jobs'[j].status # PENDING]_vars

\* C9 (SpecSerial): retry boundedness. After max_retries schedule_retry calls
\* on a job have returned True, a schedule_retry on the job, FAILED again,
\* returns False and leaves it FAILED with retry_count = max_retries.
RetryBoundedness ==
    [][\A j \in DOMAIN jobs :
          ( /\ ret'.op = "schedule_retry" /\ ret'.job = j
            /\ jobs[j].status = FAILED
            /\ retried[j] = jobs[j].max_retries )
          => /\ ret'.val = False
             /\ jobs'[j].status = FAILED
             /\ jobs'[j].retry_count = jobs[j].max_retries
             /\ jobs' = jobs]_vars

\* the case max_retries = 3: three cycles, a fourth claim and failure, the refused retry
FourthRetryRefused ==
    /\ Exists("j1")
    /\ jobs["j1"].max_retries = 3
    /\ retried["j1"] = 3
    /\ Len(claimLog["j1"]) = 4
    /\ jobs["j1"].status = FAILED
    /\ ret = Returned("schedule_retry", "j1", False)

\* C10 (SpecSerial): schedule_retry run alone goes on to its update, and
\* returns True, exactly when the job exists, is FAILED and has retry_count <
\* max_retries; the update sets status PENDING, adds one to retry_count and
\* nulls worker_id, started_at, completed_at, error_message and error_code;
\* otherwise the call returns False and no job changes.
RetryContract ==
    [][ /\ \A p \in Procs :
              (pc[p].st = "idle" /\ pc'[p].st = "retry")
              => /\ Exists(pc'[p].job)
                 /\ jobs[pc'[p].job].status = FAILED
                 /\ jobs[pc'[p].job].retry_count < jobs[pc'[p].job].max_retries
                 /\ jobs' = jobs
        /\ RetryReturned(False)
              => /\ ~ ( /\ Exists(ret'.job)
                        /\ jobs[ret'.job].status = FAILED
                        /\ jobs[ret'.job].retry_count < jobs[ret'.job].max_retries )
                 /\ jobs' = jobs
        /\ RetryReturned(True)
              => /\ Exists(ret'.job)
                 /\ jobs[ret'.job].status = FAILED
                 /\ jobs[ret'.job].retry_count < jobs[ret'.job].max_retries
                 /\ jobs'[ret'.job].status = PENDING
                 /\ jobs'[ret'.job].retry_count = jobs[ret'.job].retry_count + 1
                 /\ jobs'[ret'.job].worker_id = Null
                 /\ jobs'[ret'.job].started_at = Null
                 /\ jobs'[ret'.job].completed_at = Null
                 /\ jobs'[ret'.job].error_message = Null
                 /\ jobs'[ret'.job].error_code = Null ]_vars

\* a retry was granted to a job that had failed with an error code while claimed
RetryGranted ==
    /\ ret = Returned("schedule_retry", "j1", True)
    /\ jobs["j1"].status = PENDING
    /\ jobs["j1"].retry_count = 2
    /\ Len(claimLog["j1"]) = 2

\* C11 (SpecProtocol): after a schedule_retry that returned True the job is as
\* newly created, apart from retry_count, version and the bookkeeping column
\* updated_at: status PENDING, progress 0, current_step empty, and worker_id,
\* started_at, completed_at, error_message and error_code null.
RetriedAsNewlyCreated ==
    [][\A j \in JobIds :
          (RetryReturned(True) /\ ret'.job = j)
          => LET job == jobs'[j]
             IN [job EXCEPT !.retry_count = DefaultRetryCount,
                            !.version = DefaultVersion,
                            !.updated_at = job.created_at]
                  = NewJob(job.job_type, job.max_retries, job.created_at)]_vars

\* C12 (Spec): a job that is COMPLETED stays COMPLETED in every step of every
\* caller.
CompletedIsFinal ==
    [][\A j \in DOMAIN jobs :
          jobs[j].status = COMPLETED => jobs'[j].status = COMPLETED]_vars

\* C13 (Spec): a PENDING job changes status only in the step in which a
\* claim_next returns it, and then to PROCESSING.
PendingLeftOnlyByClaim ==
    [][\A j \in DOMAIN jobs :
          (jobs[j].status = PENDING /\ jobs'[j].status # PENDING)
          => /\ ClaimReturned
             /\ ret'.val = j
             /\ jobs'[j].status = PROCESSING]_vars

\* C14 (SpecProtocol): a schedule_retry that returns True writes to a job that
\* is, at the moment of the write, FAILED with retry_count < max_retries.
RetryWritesOnlyRetryable ==
    [][\A j \in JobIds :
          (RetryReturned(True) /\ ret'.job = j)
          => /\ Exists(j)
             /\ jobs[j].status = FAILED
             /\ jobs[j].retry_count < jobs[j].max_retries]_vars

\* C15 (SpecSerial): mark_completed on an existing job returns True and leaves
\* the job COMPLETED with progress 100; completed_at becomes the current time
\* on a job that was not COMPLETED and keeps its value on one that was.
CompletionIdempotent ==
    [][\A j \in DOMAIN jobs :
          (ret'.op = "mark_completed" /\ ret'.job = j)
          => /\ ret'.val = True
             /\ jobs'[j].status = COMPLETED
             /\ jobs'[j].progress = 100
             /\ jobs'[j].completed_at =
                   IF jobs[j].status = COMPLETED
                   THEN jobs[j].completed_at
                   ELSE Some(now)]_vars

\* the job is PENDING and of the type asked for, if a type is asked for
Matching(job, filter) ==
    /\ job.status = PENDING
    /\ (filter = Null \/ job.job_type = filter[1])

\* C16 (SpecPair): a claim_next whose selected job no longer has the version it
\* read returns None in that step, changes no job and ends the call, whatever
\* other PENDING jobs there are.
LostRaceReturnsNone ==
    [][\A p \in Workers :
          ( /\ pc[p].st = "claim"
            /\ pc'[p] # pc[p]
            /\ jobs[pc[p].job].version # pc[p].version )
          => /\ ret' = ClaimResult(pc[p].filter, None)
             /\ jobs' = jobs
             /\ pc'[p] = Idle]_vars

\* a claim_next returned None although a PENDING job of the type it asked for is
\* in the queue: it had selected a job that another worker claimed first
LostRaceWithOtherPending ==
    /\ ret.op = "claim_next"
    /\ ret.val = None
    /\ \E j \in DOMAIN jobs : Matching(jobs[j], ret.job_type)
    /\ \E j \in DOMAIN jobs : jobs[j].status = PROCESSING

\* C17 (SpecPair): the select of a claim_next picks a PENDING job of the type
\* asked for with the least created_at among those, and returns None exactly
\* when there is none; when no other call claimed the picked job in between,
\* the update returns it, PROCESSING and with worker_id the caller.
OldestFirst ==
    [][/\ \A p \in Workers :
            /\ (pc[p].st = "idle" /\ pc'[p].st = "claim")
               => LET j == pc'[p].job
                      f == pc'[p].filter
                  IN  /\ Exists(j)
                      /\ Matching(jobs[j], f)
                      /\ \A i \in DOMAIN jobs :
                            Matching(jobs[i], f)
                            => jobs[j].created_at <= jobs[i].created_at
            /\ ( /\ pc[p].st = "claim"
                 /\ pc'[p] # pc[p]
                 /\ jobs[pc[p].job].version = pc[p].version )
               => LET j == pc[p].job
                      f == pc[p].filter
                  IN  /\ ret' = ClaimResult(f, j)
                      /\ jobs'[j].status = PROCESSING
                      /\ jobs'[j].worker_id = Some(p)
                      /\ (f # Null => jobs'[j].job_type = f[1])
       /\ (ClaimReturned /\ pc' = pc)
          => /\ ret'.val = None
             /\ \A i \in DOMAIN jobs : ~Matching(jobs[i], ret'.job_type)]_vars

\* a claim filtered by type returned the newer job j2 while the older job j1,
\* of the other type, is still PENDING
FilteredClaimPassedOlder ==
    /\ ret = ClaimResult(Some(AUDIOBOOK_REFRESH), "j2")
    /\ DOMAIN jobs = {"j1", "j2"}
    /\ jobs["j1"].status = PENDING
    /\ jobs["j1"].job_type = AUDIOBOOK_GENERATION
    /\ jobs["j1"].created_at < jobs["j2"].created_at
    /\ jobs["j2"].worker_id # Null

\* C18 (SpecLinks): update_progress, mark_completed, mark_failed and
\* schedule_retry called with an id that names no job return False and change
\* no job and no link.
NotFoundIsFalse ==
    [][( /\ ret'.op \in {"update_progress", "mark_completed",
                         "mark_failed", "schedule_retry"}
         /\ ~Exists(ret'.job) )
       => /\ ret'.val = False
          /\ jobs' = jobs
          /\ links' = links]_vars

\* schedule_retry was called with the id of no job while a job and its link exist
RetryOfMissingJob ==
    /\ ret = Returned("schedule_retry", "j2", False)
    /\ DOMAIN jobs = {"j1"}
    /\ Len(links) = 1

\* C19 (SpecSerial): mark_failed on an existing job returns True, sets status
\* FAILED and completed_at to the current time, stores the message and the
\* code, and leaves retry_count, max_retries and version as they were.
MarkFailedAlwaysPermitted ==
    [][\A j \in DOMAIN jobs :
          (ret'.op = "mark_failed" /\ ret'.job = j)
          => /\ ret'.val = True
             /\ jobs'[j].status = FAILED
             /\ jobs'[j].completed_at = Some(now)
             /\ jobs'[j].error_message \in {Some(m) : m \in SerialInputs.messages}
             /\ jobs'[j].error_code \in SerialInputs.codes
             /\ jobs'[j].retry_count = jobs[j].retry_count
             /\ jobs'[j].max_retries = jobs[j].max_retries
             /\ jobs'[j].version = jobs[j].version]_vars

\* a job whose retries were all used has been marked failed once more
FailedWithBudgetSpent ==
    /\ ret.op = "mark_failed"
    /\ ret.job = "j1"
    /\ ret.val = True
    /\ jobs["j1"].status = FAILED
    /\ jobs["j1"].retry_count = jobs["j1"].max_retries
    /\ jobs["j1"].retry_count >= 1
    /\ jobs["j1"].error_code # Null

\* C20 (Spec): a job whose error_message or error_code is set is FAILED.
ErrorOnlyWhenFailed ==
    \A j \in DOMAIN jobs :
        (jobs[j].error_message # Null \/ jobs[j].error_code # Null)
        => jobs[j].status = FAILED

\* C21 (SpecProtocol): a PROCESSING job stops being PROCESSING only in a step
\* in which mark_completed or mark_failed is called on it.
ProcessingLeftOnlyByReport ==
    [][\A j \in DOMAIN jobs :
          (jobs[j].status = PROCESSING /\ jobs'[j].status # PROCESSING)
          => /\ ret'.op \in {"mark_completed", "mark_failed"}
             /\ ret'.job = j]_vars

\* the audio books that the links of job j name
AudioBooksOfJob(j) ==
    {links[i].audio_book_id : i \in {k \in 1..Len(links) : links[k].job_id = j}}

\* C22 (SpecEntity): no job ever has two links; a create_link for a job that
\* has a link raises and leaves the links as they are, one for a job without
\* appends the link to the audio book asked for; get_by_job_id returns the
\* audio book of the job's link, or None for a job without a link.
LinkUniqueness ==
    /\ [](\A j \in JobIds :
            Cardinality({i \in 1..Len(links) : links[i].job_id = j}) <= 1)
    /\ [][/\ (ret'.op = "create_link" /\ AudioBooksOfJob(ret'.job) # {})
             => /\ ret'.val = IntegrityError
                /\ links' = links
          /\ (ret'.op = "create_link" /\ ret'.val # IntegrityError)
             => /\ Len(links') = Len(links) + 1
                /\ SubSeq(links', 1, Len(links)) = links
                /\ links'[Len(links')].job_id = ret'.job
                /\ links'[Len(links')].audio_book_id = ret'.args.audio_book_id
          /\ ret'.op = "get_by_job_id"
             => /\ links' = links
                /\ IF AudioBooksOfJob(ret'.job) = {}
                   THEN ret'.val = None
                   ELSE AudioBooksOfJob(ret'.job) = {ret'.val}]_vars

\* a second link, to the other audio book, was refused for a job linked to a1
SecondLinkRefused ==
    /\ ret.op = "create_link"
    /\ ret.val = IntegrityError
    /\ ret.job = "j1"
    /\ ret.args.audio_book_id = "a2"
    /\ AudioBooksOfJob("j1") = {"a1"}

\* the scenario's job at one of its stages
AtStage(job, status, version, retryCount) ==
    /\ job.max_retries = 2
    /\ job.status = status
    /\ job.version = version
    /\ job.retry_count = retryCount

\* C23 (SpecTurns): the scenario, stage by stage, each stage starting in the
\* state the one before it ends in.  A job created with max_retries 2 is
\* PENDING at version 1 with retry_count 0; a claim_next then returns it at
\* version 2, PROCESSING and with the caller as worker; mark_failed makes it
\* FAILED with retry_count 0; schedule_retry returns True and makes it PENDING
\* with retry_count 1; a claim_next returns it to its caller at version 3;
\* mark_completed makes it COMPLETED with progress 100.
Scenario ==
    [][\A j \in DOMAIN jobs' :
          /\ (ret'.op = "create" /\ ret'.val = j /\ jobs'[j].max_retries = 2)
             => /\ AtStage(jobs'[j], PENDING, 1, 0)
                /\ jobs'[j].progress = 0
          /\ Exists(j) =>
             /\ ( /\ ClaimReturned
                  /\ \/ AtStage(jobs[j], PENDING, 1, 0)
                     \/ AtStage(jobs[j], PENDING, 2, 1) )
                => /\ ret'.val = j
                   /\ AtStage(jobs'[j], PROCESSING,
                              jobs[j].version + 1, jobs[j].retry_count)
                   /\ \E p \in Workers :
                         /\ pc[p].st = "claim"
                         /\ jobs'[j].worker_id = Some(p)
             /\ ( /\ ret'.op = "mark_failed" /\ ret'.job = j
                  /\ AtStage(jobs[j], PROCESSING, 2, 0) )
                => /\ ret'.val = True
                   /\ AtStage(jobs'[j], FAILED, 2, 0)
             /\ ( /\ ret'.op = "schedule_retry" /\ ret'.job = j
                  /\ AtStage(jobs[j], FAILED, 2, 0) )
                => /\ ret'.val = True
                   /\ AtStage(jobs'[j], PENDING, 2, 1)
             /\ ( /\ ret'.op = "mark_completed" /\ ret'.job = j
                  /\ AtStage(jobs[j], PROCESSING, 3, 1) )
                => /\ ret'.val = True
                   /\ AtStage(jobs'[j], COMPLETED, 3, 1)
                   /\ jobs'[j].progress = 100]_vars

\* the scenario has run to its end: claimed twice, retried once, completed by w2
ScenarioCompleted ==
    /\ ret = Returned("mark_completed", "j1", True)
    /\ AtStage(jobs["j1"], COMPLETED, 3, 1)
    /\ jobs["j1"].progress = 100
    /\ jobs["j1"].worker_id = Some("w2")
    /\ claimLog["j1"] = <<2, 3>>
    /\ retried["j1"] = 1

\* C24 (SpecProgress): every job's progress is in 0..100, and an
\* update_progress stores its argument brought into that range, whatever the
\* progress was before.
ProgressClamped ==
    /\ [](\A j \in DOMAIN jobs : jobs[j].progress \in 0..100)
    /\ [][\A j \in DOMAIN jobs :
            (ret'.op = "update_progress" /\ ret'.job = j)
            => LET p == ret'.args.progress
               IN  jobs'[j].progress =
                      IF p < 0 THEN 0 ELSE IF p > 100 THEN 100 ELSE p]_vars

\* a report of -5 took a completed job's progress from 100 down to 0
ProgressLowered ==
    /\ ret.op = "update_progress"
    /\ ret.job = "j1"
    /\ ret.args.progress = -5
    /\ Exists("j1")
    /\ jobs["j1"].status = COMPLETED
    /\ jobs["j1"].progress = 0

\* the jobs that a link ties to the audio book
LinkedJobs(audioBook) ==
    {j \in DOMAIN jobs :
        \E i \in 1..Len(links) :
            links[i].job_id = j /\ links[i].audio_book_id = audioBook}

\* get_jobs_for_audiobook returns jobs linked to the audio book, no job twice,
\* at most limit of them, none older than the one after it
JobsListed ==
    ret'.op = "get_jobs_for_audiobook"
    => LET l == ret'.val
           S == LinkedJobs(ret'.args.audio_book_id)
       IN  /\ Len(l) <= ret'.args.limit
           /\ \A i \in 1..Len(l) : l[i] \in S
           /\ \A i, k \in 1..Len(l) :
                 i < k => l[i] # l[k] /\ jobs[l[i]].created_at >= jobs[l[k]].created_at

\* get_latest_job_for_audiobook returns a linked job that no linked job is
\* newer than, or None when no job is linked
LatestIsNewest ==
    ret'.op = "get_latest_job_for_audiobook"
    => LET S == LinkedJobs(ret'.args.audio_book_id)
       IN  IF S = {}
           THEN ret'.val = None
           ELSE /\ ret'.val \in S
                /\ \A i \in S : jobs[ret'.val].created_at >= jobs[i].created_at

\* C25 as stated (SpecEntity): moreover the job that get_latest_job_for_audiobook
\* returns is the first element of whatever get_jobs_for_audiobook returns for
\* the same audio book and a limit of at least 1.
LatestIsFirstOfJobs ==
    [][/\ JobsListed
       /\ LatestIsNewest
       /\ ret'.op = "get_latest_job_for_audiobook"
          => \A n \in 1..MaxLimit :
                \A o \in NewestFirst(LinkedJobs(ret'.args.audio_book_id)) :
                   Len(o) > 0 => Prefix(o, n)[1] = ret'.val]_vars

\* C25 as amended (SpecEntity): the job returned is as new as the first element
\* of whatever get_jobs_for_audiobook returns, and is that element when the
\* linked jobs were created at different times.
LatestMatchesFirstOfJobs ==
    [][/\ JobsListed
       /\ LatestIsNewest
       /\ ret'.op = "get_latest_job_for_audiobook"
          => \A n \in 1..MaxLimit :
                \A o \in NewestFirst(LinkedJobs(ret'.args.audio_book_id)) :
                   Len(o) > 0
                   => LET first == Prefix(o, n)[1]
                      IN  /\ jobs[first].created_at = jobs[ret'.val].created_at
                          /\ (\A i, k \in LinkedJobs(ret'.args.audio_book_id) :
                                 i # k => jobs[i].created_at # jobs[k].created_at)
                             => first = ret'.val]_vars

\* the newer of the two jobs linked to audio book a1 was returned as its latest
LatestOfTwo ==
    /\ ret.op = "get_latest_job_for_audiobook"
    /\ ret.args.audio_book_id = "a1"
    /\ ret.val = "j2"
    /\ LinkedJobs("a1") = {"j1", "j2"}
    /\ jobs["j1"].created_at < jobs["j2"].created_at

\* C26 (SpecLinks): no step removes a job or changes a job's job_type,
\* max_retries or created_at (its id is its key in the table), and no step
\* removes or changes a link: the links of before are the first links of after.
IdentityKept ==
    [][/\ \A j \in DOMAIN jobs :
            /\ j \in DOMAIN jobs'
            /\ jobs'[j].job_type = jobs[j].job_type
            /\ jobs'[j].max_retries = jobs[j].max_retries
            /\ jobs'[j].created_at = jobs[j].created_at
       /\ Len(links') >= Len(links)
       /\ SubSeq(links', 1, Len(links)) = links]_vars

\* a linked job has been claimed, failed, retried, claimed again and completed,
\* after the time of its creation
LinkedJobWentThrough ==
    /\ ret = Returned("mark_completed", "j1", True)
    /\ jobs["j1"].retry_count >= 1
    /\ Len(claimLog["j1"]) = 2
    /\ jobs["j1"].progress = 100
    /\ jobs["j1"].created_at < now
    /\ jobs["j1"].retry_count < jobs["j1"].max_retries
    /\ Len(links) = 1

\* C27 (SpecErrors): after mark_failed(j, msg, code) the stored error_message
\* is the first min(len(msg), 2000) characters of msg, and the stored
\* error_code is the first min(len(code), 50) characters of code, or null when
\* no code or an empty code was given.
ErrorFieldsBounded ==
    [][\A j \in DOMAIN jobs :
          (ret'.op = "mark_failed" /\ ret'.job = j)
          => LET msg == ret'.args.error_message
                 code == ret'.args.error_code
                 Cut(s, n) == SubSeq(s, 1, IF Len(s) < n THEN Len(s) ELSE n)
             IN  /\ jobs'[j].error_message = Some(Cut(msg, 2000))
                 /\ Len(jobs'[j].error_message[1]) <= 2000
                 /\ IF code = Null
                    THEN jobs'[j].error_code = Null
                    ELSE IF code[1] = <<>>
                    THEN jobs'[j].error_code = Null
                    ELSE /\ jobs'[j].error_code = Some(Cut(code[1], 50))
                         /\ Len(jobs'[j].error_code[1]) <= 50]_vars

\* a message of 2001 characters and a code of 51 were stored cut to 2000 and 50
ErrorFieldsCut ==
    /\ ret.op = "mark_failed"
    /\ ret.val = True
    /\ Len(ret.args.error_message) = 2001
    /\ ret.args.error_code # Null
    /\ Len(ret.args.error_code[1]) = 51
    /\ Len(jobs[ret.job].error_message[1]) = 2000
    /\ Len(jobs[ret.job].error_code[1]) = 50

\* C28 (Spec): a job that a claim_next returns was PENDING at the moment of the
\* claim's update.
ClaimedFromPending ==
    [][\A j \in DOMAIN jobs :
          (ClaimReturned /\ ret'.val = j) => jobs[j].status = PENDING]_vars

\* C29 (SpecProtocol): for every job the number of schedule_retry calls that
\* returned True is its retry_count and is at most its max_retries.
RetriesGrantedAreCounted ==
    \A j \in DOMAIN jobs :
        /\ retried[j] = jobs[j].retry_count
        /\ retried[j] <= jobs[j].max_retries

ProgressFrame ==
    [][\A j \in DOMAIN jobs :
          (ret'.op = "update_progress" /\ ret'.job = j)
          => /\ ret'.val = True
             /\ jobs' = [jobs EXCEPT ![j] =
                           [@ EXCEPT !.progress = jobs'[j].progress,
                                     !.current_step =
                                        IF ret'.args.step = Null
                                        THEN @ ELSE ret'.args.step,
                                     !.updated_at = now]]]_vars

\* progress was reported without a step for a FAILED job that keeps the step
\* reported earlier
ProgressOfFailedJob ==
    /\ ret.op = "update_progress"
    /\ ret.job = "j1"
    /\ ret.args.step = Null
    /\ Exists("j1")
    /\ jobs["j1"].status = FAILED
    /\ jobs["j1"].current_step = Some("extract")
    /\ jobs["j1"].progress = 40
    /\ jobs["j1"].error_message # Null

\* C32 as stated (SpecTurns): in every reachable state a COMPLETED job has
\* progress = 100.
CompletedHasFullProgress ==
    \A j \in DOMAIN jobs :
        jobs[j].status = COMPLETED => jobs[j].progress = 100

\* C32 (SpecTurns): mark_completed leaves the job with progress = 100, and the
\* progress of a COMPLETED job changes only by an update_progress call for
\* that job, which may lower it, or by a repeated mark_completed, which
\* restores 100.
CompletedProgressSetByCompletion ==
    [][\A j \in DOMAIN jobs :
          /\ (ret'.op = "mark_completed" /\ ret'.job = j)
             => (jobs'[j].status = COMPLETED /\ jobs'[j].progress = 100)
          /\ (jobs[j].status = COMPLETED /\ jobs'[j].status = COMPLETED
                /\ jobs'[j].progress # jobs[j].progress)
             => (ret'.op \in {"update_progress", "mark_completed"}
                   /\ ret'.job = j)
          /\ (jobs[j].status # COMPLETED /\ jobs'[j].status = COMPLETED)
             => jobs'[j].progress = 100]_vars

\* a COMPLETED job whose progress was reported as 40 after its completion
CompletedThenProgressLowered ==
    /\ Exists("j1")
    /\ jobs["j1"].status = COMPLETED
    /\ jobs["j1"].completed_at # Null
    /\ jobs["j1"].progress = 40
    /\ ret.op = "update_progress"
    /\ ret.job = "j1"

\* C33 (Spec): no step of any execution, a schedule_retry write made from an
\* earlier read included, lowers a job's retry_count.
RetryCountNeverDecreases ==
    [][\A j \in DOMAIN jobs :
          jobs'[j].retry_count >= jobs[j].retry_count]_vars

\* C34 (SpecPoll): with a worker that keeps polling claim_next without a type
\* filter, every job that is PENDING is eventually PROCESSING, whatever the
\* other worker claims first.
PendingEventuallyClaimed ==
    \A j \in JobIds :
        (Exists(j) /\ jobs[j].status = PENDING)
            ~> (Exists(j) /\ jobs[j].status = PROCESSING)

\* the polling worker lost the older job to the other worker and claimed the
\* younger one
PollerClaimedAfterRacer ==
    /\ Exists("j1") /\ Exists("j2")
    /\ jobs["j1"].created_at < jobs["j2"].created_at
    /\ holder["j1"] = {"w2"}
    /\ holder["j2"] = {Poller}
    /\ jobs["j1"].status = PROCESSING
    /\ jobs["j2"].status = PROCESSING

\* the job is COMPLETED, or FAILED with its retries used up
AtRest(j) ==
    Exists(j) /\ (jobs[j].status = COMPLETED \/ Exhausted(jobs[j]))

\* C35 (SpecProtocol): a job that has reached COMPLETED, or FAILED with
\* retry_count = max_retries, stays in that state forever, so its cycle
\* PENDING, PROCESSING, FAILED, PENDING has come to an end.
TerminatedForever ==
    [][\A j \in JobIds : AtRest(j) => AtRest(j)']_vars

\* C36 (SpecBacklog): a schedule_retry that returns True leaves created_at as
\* it was, and a claim_next without a filter that no other call interleaves
\* with returns a PENDING job than which no PENDING job is older; so a retried
\* job is claimed before every PENDING job created after it.
RetriedKeepsQueuePosition ==
    [][\A j \in DOMAIN jobs :
          /\ (RetryReturned(True) /\ ret'.job = j)
             => /\ jobs'[j].status = PENDING
                /\ jobs'[j].created_at = jobs[j].created_at
          /\ (ClaimReturned /\ ret'.val = j)
             => /\ jobs[j].status = PENDING
                /\ \A k \in DOMAIN jobs :
                      (jobs[k].status = PENDING /\ k # j)
                      => jobs[j].created_at <= jobs[k].created_at
          /\ (ClaimReturned /\ ret'.val = None)
             => jobs[j].status # PENDING]_vars

\* j1, retried after j2 was created, is claimed while the younger j2 waits
RetriedClaimedBeforeYounger ==
    /\ ret = ClaimResult(Null, "j1")
    /\ Exists("j1") /\ Exists("j2")
    /\ jobs["j1"].retry_count = 1
    /\ jobs["j1"].status = PROCESSING
    /\ jobs["j2"].status = PENDING
    /\ jobs["j2"].version = 1
    /\ jobs["j1"].created_at < jobs["j2"].created_at
    /\ jobs["j1"].started_at = Some(now)
    /\ now = jobs["j2"].created_at

\* the PENDING jobs of the table
Backlog == {j \in DOMAIN jobs : jobs[j].status = PENDING}

\* what the monitoring reads of a quiescent store return: get_pending_count is
\* the number of PENDING jobs and is 0 exactly when a claim_next without a
\* filter returns None; get_by_status(PENDING) lists PENDING jobs only, oldest
\* first, min(limit, count) of them
MonitoringReads ==
    /\ ret'.op = "get_pending_count" => ret'.val = Cardinality(Backlog)
    /\ (ClaimReturned /\ Quiet')
       => (ret'.val = None <=> Cardinality(Backlog) = 0)
    /\ (ret'.op = "get_by_status" /\ ret'.args.status = PENDING)
       => LET listed == ret'.val
          IN  /\ Len(listed) = Min(ret'.args.limit, Cardinality(Backlog))
              /\ \A i \in 1..Len(listed) : listed[i] \in Backlog
              /\ \A i, k \in 1..Len(listed) :
                    i < k => /\ listed[i] # listed[k]
                             /\ jobs[listed[i]].created_at
                                  <= jobs[listed[k]].created_at

\* C37 as stated (SpecBacklog): the monitoring reads are as above, and the
\* first job that get_by_status(PENDING) lists is the job that a claim_next
\* without a filter selects next.
FirstListedIsNextClaimed ==
    [][/\ MonitoringReads
       /\ (ret'.op = "get_by_status" /\ ret'.args.status = PENDING
             /\ Len(ret'.val) >= 1)
          => Oldest(PendingJobs(Null)) = {ret'.val[1]}]_vars

\* C37 (SpecBacklog): the monitoring reads are as above, and the first job
\* that get_by_status(PENDING) lists is a job that a claim_next without a
\* filter may select next: no PENDING job is older; it is the only such job
\* when no other PENDING job has the same created_at.
FirstListedMayBeNextClaimed ==
    [][/\ MonitoringReads
       /\ (ret'.op = "get_by_status" /\ ret'.args.status = PENDING
             /\ Len(ret'.val) >= 1)
          => LET first == ret'.val[1]
             IN  /\ first \in Oldest(PendingJobs(Null))
                 /\ (\A k \in Backlog \ {first} :
                        jobs[k].created_at # jobs[first].created_at)
                    => Oldest(PendingJobs(Null)) = {first}]_vars

\* get_by_status(PENDING, 1) listed j2 while j1, created at the same time, is
\* PENDING too and has been retried
ListedOneOfTwoOldest ==
    /\ ret.op = "get_by_status"
    /\ ret.args = [status |-> PENDING, limit |-> 1]
    /\ ret.val = <<"j2">>
    /\ Exists("j1")
    /\ jobs["j1"].status = PENDING
    /\ jobs["j1"].retry_count = 1
    /\ jobs["j1"].created_at = jobs["j2"].created_at

====
